---------------------------- MODULE Spec2Model ----------------------------
(***************************************************************************)
(* A model of the copilot sample: the langchain question-answering call    *)
(* (src/src/copilot_langchain/chat.py) and the command-line dispatcher     *)
(* with its helpers (src/src/run.py).                                      *)
(*                                                                         *)
(* Two specifications share the variables:                                 *)
(*   Spec     one run of `python src/run.py <argv>`, from argument parsing *)
(*            to process exit;                                             *)
(*   SpecLib  a caller that imports the functions and calls                *)
(*            chat_completion, copilot_qna and load_jsonl one after the    *)
(*            other in one process, any number of times.                   *)
(*                                                                         *)
(* Python values are records [kind, text, context] so that values of       *)
(* different Python types can be compared.  Hosted services (credential    *)
(* client, index, chat pipeline, evaluation, deployment) are inputs of the *)
(* action that calls them: each either fails or answers.                   *)
(***************************************************************************)
EXTENDS Integers, Sequences, FiniteSets, TLC

VARIABLES
    pc,            \* position of the process ("parse", ..., "done", "error")
    args,          \* the argparse namespace
    module_names,  \* names bound in run.py's module namespace
    backend,       \* the module chat_completion was imported from
    environ,       \* os.environ
    openai,        \* the openai module's api_type/api_key/api_version/api_base
    environ0,      \* os.environ as the process found it (history)
    openai0,       \* the openai settings as the process found them (history)
    trace,         \* calls issued to hosted services and to the backend, in order
    stdout,        \* values printed, in order
    exc,           \* the exception that ended the process, "none" otherwise
    started,       \* the operations of run.py this process has entered
    dataset,       \* rows loaded by run_evaluation
    row,           \* evaluation's position in dataset
    result,        \* run.py's module variable `result`
    argv,          \* the command line the process was started with
    last           \* SpecLib: the library call that has just returned

vars == <<pc, args, module_names, backend, environ, openai, environ0, openai0,
          trace, stdout, exc, started, dataset, row, result, argv, last>>

----------------------------------------------------------------------------
(* Bounds of the model *)

\* longest conversation handed to chat_completion
MaxMsgs == 2
\* most lines of a dataset file
MaxLines == 2

----------------------------------------------------------------------------
(* Python values *)

None == "<None>"
Absent == "<absent>"

\* a str
PyStr(s) == [kind |-> "str", text |-> s, context |-> None]

\* a chat-completion response: {"choices": [{"message": {"content": a}, "context": c}]}
PyCompletion(a, c) == [kind |-> "completion", text |-> a, context |-> c]

\* the value evaluate() returns
PyEvalResult(n) == [kind |-> "eval_result", text |-> n, context |-> None]

NoValue == [kind |-> "none", text |-> None, context |-> None]

Questions == {"q1", "q2"}
Answers == {"a1", "a2"}
SourceDocs == "docs"

Roles == {"user", "assistant"}
Messages == [role : Roles, content : Questions]

RECURSIVE SeqsUpTo(_, _)
SeqsUpTo(S, n) ==
    IF n = 0 THEN {<<>>}
    ELSE LET shorter == SeqsUpTo(S, n - 1)
         IN  shorter \cup {Append(s, x) : s \in {t \in shorter : Len(t) = n - 1}, x \in S}

MessageSeqs == SeqsUpTo(Messages, MaxMsgs)

----------------------------------------------------------------------------
(* Process environment *)

ChatEnvVars ==
    {"AZURE_OPENAI_CHAT_DEPLOYMENT", "AZURE_OPENAI_CHAT_MODEL",
     "OPENAI_API_TYPE", "OPENAI_API_KEY", "OPENAI_API_VERSION", "OPENAI_API_BASE",
     "AZURE_AI_SEARCH_ENDPOINT", "AZURE_AI_SEARCH_KEY"}

EmbeddingEnvVars ==
    {"AZURE_OPENAI_EMBEDDING_DEPLOYMENT", "AZURE_OPENAI_EMBEDDING_MODEL"}

ConfigEnvVars == ChatEnvVars \cup EmbeddingEnvVars

CogSearchEnvVars == {"AZURE_COGNITIVE_SEARCH_TARGET", "AZURE_COGNITIVE_SEARCH_KEY"}

EnvVars == ConfigEnvVars \cup CogSearchEnvVars

\* The environment after load_dotenv(): every configuration variable set (its
\* value is written as the variable's name) except possibly one, and the two
\* variables the search SDK reads either unset or left over from elsewhere.
Environments ==
    {[v \in EnvVars |->
        IF v \in CogSearchEnvVars THEN cog
        ELSE IF v = missing THEN Absent ELSE v] :
     missing \in ConfigEnvVars \cup {"<nothing>"}, cog \in {Absent, "stale"}}

OpenAIFields == {"api_type", "api_key", "api_version", "api_base"}

\* The openai module's settings before setup_credentials has run: the library's
\* own defaults.
OpenAIDefaults == [f \in OpenAIFields |-> "module-default"]

----------------------------------------------------------------------------
(* copilot_langchain/chat.py *)

\* One assignment of setup_credentials: target <- os.environ[source]
CredentialSteps ==
    << [into |-> "openai",  target |-> "api_type",    source |-> "OPENAI_API_TYPE"],
       [into |-> "openai",  target |-> "api_key",     source |-> "OPENAI_API_KEY"],
       [into |-> "openai",  target |-> "api_version", source |-> "OPENAI_API_VERSION"],
       [into |-> "openai",  target |-> "api_base",    source |-> "OPENAI_API_BASE"],
       [into |-> "environ", target |-> "AZURE_COGNITIVE_SEARCH_TARGET",
                            source |-> "AZURE_AI_SEARCH_ENDPOINT"],
       [into |-> "environ", target |-> "AZURE_COGNITIVE_SEARCH_KEY",
                            source |-> "AZURE_AI_SEARCH_KEY"] >>

\* The steps with a copy-paste slip: the search target is read from the key.
CredentialStepsSwapped ==
    [CredentialSteps EXCEPT ![5].source = "AZURE_AI_SEARCH_KEY"]

\* The assignments one after the other; the first missing source raises KeyError
\* and leaves the earlier assignments in place.
RECURSIVE RunAssignments(_, _, _, _)
RunAssignments(steps, i, env, oa) ==
    IF i > Len(steps) THEN [status |-> "ok", environ |-> env, openai |-> oa]
    ELSE LET s == steps[i]
         IN  IF env[s.source] = Absent
             THEN [status |-> "KeyError", environ |-> env, openai |-> oa]
             ELSE IF s.into = "openai"
                  THEN RunAssignments(steps, i + 1, env,
                                      [oa EXCEPT ![s.target] = env[s.source]])
                  ELSE RunAssignments(steps, i + 1,
                                      [env EXCEPT ![s.target] = env[s.source]], oa)

setup_credentials_swapped(env, oa) == RunAssignments(CredentialStepsSwapped, 1, env, oa)

setup_credentials(env, oa) == RunAssignments(CredentialSteps, 1, env, oa)

\* What the hosted side does during one chat_completion: the credential client
\* and the index either work or raise, and the pipeline raises or answers.
PipelineOutcomes ==
    [client_ok : BOOLEAN, index_ok : BOOLEAN, answer : Answers \cup {"<raises>"}]

\* RetrievalQA(...)(question) with return_source_documents=True
RetrievalQA(question, answer) ==
    [query |-> question, result |-> answer, source_documents |-> SourceDocs]

\* The slip of reading the first message instead of the last.
FirstContent(messages) == messages[1]["content"]

\* question = messages[-1]["content"]
QuestionOf(messages) == messages[Len(messages)]["content"]

\* response["result"]
ResultOf(response) == PyStr(response.result)

ChatFailure(status, env, oa) ==
    [status |-> status, value |-> NoValue, submitted |-> <<>>,
     environ |-> env, openai |-> oa]

\* The pipeline is reached before the credentials are set up.
qa_before_credentials(messages, env, oa, svc) ==
    IF messages = <<>> THEN ChatFailure("IndexError", env, oa)
    ELSE LET question == QuestionOf(messages)
             creds == setup_credentials(env, oa)
         IN  IF svc.answer = "<raises>"
             THEN [ChatFailure("ServiceError", env, oa) EXCEPT !.submitted = <<question>>]
             ELSE IF creds.status # "ok"
             THEN [ChatFailure(creds.status, creds.environ, creds.openai)
                       EXCEPT !.submitted = <<question>>]
             ELSE [status |-> "ok",
                   value |-> ResultOf(RetrievalQA(question, svc.answer)),
                   submitted |-> <<question>>,
                   environ |-> creds.environ, openai |-> creds.openai]

\* async def chat_completion(messages, stream, session_state, context)
chat_completion(messages, env, oa, svc) ==
    IF messages = <<>> THEN ChatFailure("IndexError", env, oa)
    ELSE LET question == QuestionOf(messages)
         IN
         IF env["AZURE_OPENAI_CHAT_DEPLOYMENT"] = Absent
            \/ env["AZURE_OPENAI_CHAT_MODEL"] = Absent
         THEN ChatFailure("KeyError", env, oa)
         ELSE IF ~svc.client_ok THEN ChatFailure("ServiceError", env, oa)
         ELSE LET creds == setup_credentials(env, oa)
              IN
              IF creds.status # "ok"
              THEN ChatFailure(creds.status, creds.environ, creds.openai)
              ELSE IF ~svc.index_ok
              THEN ChatFailure("ServiceError", creds.environ, creds.openai)
              ELSE IF svc.answer = "<raises>"
              THEN [ChatFailure("ServiceError", creds.environ, creds.openai)
                        EXCEPT !.submitted = <<question>>]
              ELSE [status |-> "ok",
                    value |-> ResultOf(RetrievalQA(question, svc.answer)),
                    submitted |-> <<question>>,
                    environ |-> creds.environ, openai |-> creds.openai]

----------------------------------------------------------------------------
(* The backends run.py can import *)

KnownImplementations == {"promptflow", "semantickernel", "langchain", "aisdk"}

\* What a chat_completion of another backend hands back when it answers: the
\* answer text, or a chat-completion response.
Shapes == {"text", "completion"}

\* copilot_promptflow, copilot_semantickernel and copilot_aisdk: the call fails,
\* or answers in one of the two shapes.
other_chat_completion(messages, env, oa, svc, shape) ==
    IF messages = <<>> THEN ChatFailure("IndexError", env, oa)
    ELSE IF ~svc.client_ok \/ ~svc.index_ok \/ svc.answer = "<raises>"
    THEN ChatFailure("ServiceError", env, oa)
    ELSE [status |-> "ok",
          value |-> IF shape = "text" THEN PyStr(svc.answer)
                    ELSE PyCompletion(svc.answer, SourceDocs),
          submitted |-> <<>>, environ |-> env, openai |-> oa]

\* asyncio.run(chat_completion_fn(messages)) for the backend bound to the name
call_backend(fn, messages, env, oa, svc, shape) ==
    IF fn = "langchain" THEN chat_completion(messages, env, oa, svc)
    ELSE other_chat_completion(messages, env, oa, svc, shape)

----------------------------------------------------------------------------
(* run.py: copilot_qna *)

NoQna == [question |-> None, answer |-> None, context |-> None]

\* def copilot_qna(question, chat_completion_fn)
copilot_qna(question, fn, env, oa, svc, shape) ==
    LET r == call_backend(fn, <<[role |-> "user", content |-> question]>>,
                          env, oa, svc, shape)
    IN  IF r.status # "ok"
        THEN [status |-> r.status, qna |-> NoQna, submitted |-> r.submitted,
              environ |-> r.environ, openai |-> r.openai]
        \* result['choices'][0]: a str cannot be indexed by 'choices'
        ELSE IF r.value.kind # "completion"
        THEN [status |-> "TypeError", qna |-> NoQna, submitted |-> r.submitted,
              environ |-> r.environ, openai |-> r.openai]
        ELSE [status |-> "ok",
              qna |-> [question |-> question, answer |-> r.value.text,
                       context |-> r.value.context],
              submitted |-> r.submitted, environ |-> r.environ, openai |-> r.openai]

----------------------------------------------------------------------------
(* run.py: load_jsonl.  A file is a sequence of tokens; "NL" ends a line,   *)
(* "WS" is other whitespace, "Q:x" is the member "question": "x" and "T:x" *)
(* the member "truth": "x".                                                *)

QuestionMembers == {"Q:q1", "Q:q2"}
TruthMembers == {"T:t1", "T:t2"}
Members == QuestionMembers \cup TruthMembers
Whitespace == {"WS", "NL"}

MemberValue(tok) ==
    CASE tok = "Q:q1" -> "q1" [] tok = "Q:q2" -> "q2"
      [] tok = "T:t1" -> "t1" [] tok = "T:t2" -> "t2"

\* str.strip of JSON whitespace at both ends, as json.loads skips it
RECURSIVE Strip(_)
Strip(s) ==
    IF s = <<>> THEN s
    ELSE IF s[1] \in Whitespace THEN Strip(Tail(s))
    ELSE IF s[Len(s)] \in Whitespace THEN Strip(SubSeq(s, 1, Len(s) - 1))
    ELSE s

\* The value of key `keys` in a member list: the last member wins, as in a dict.
RECURSIVE Lookup(_, _)
Lookup(body, keys) ==
    IF body = <<>> THEN Absent
    ELSE IF body[Len(body)] \in keys THEN MemberValue(body[Len(body)])
    ELSE Lookup(SubSeq(body, 1, Len(body) - 1), keys)

\* member ("," member)*
WellFormedMembers(body) ==
    /\ Len(body) % 2 = 1
    /\ \A i \in 1..Len(body) :
          IF i % 2 = 1 THEN body[i] \in Members ELSE body[i] = ","

JsonError == [ok |-> FALSE, kind |-> "error", question |-> Absent, truth |-> Absent]

\* json.loads(line)
json_loads(line) ==
    LET s == Strip(line)
    IN  IF s = <<"7">>
        THEN [ok |-> TRUE, kind |-> "number", question |-> Absent, truth |-> Absent]
        ELSE IF Len(s) >= 2 /\ s[1] = "{" /\ s[Len(s)] = "}"
        THEN LET body == SubSeq(s, 2, Len(s) - 1)
             IN  IF body = <<>> \/ WellFormedMembers(body)
                 THEN [ok |-> TRUE, kind |-> "object",
                       question |-> Lookup(body, QuestionMembers),
                       truth |-> Lookup(body, TruthMembers)]
                 ELSE JsonError
        ELSE JsonError

\* position of the first "NL" of text, 0 when there is none
RECURSIVE FirstNL(_, _)
FirstNL(text, i) ==
    IF i > Len(text) THEN 0
    ELSE IF text[i] = "NL" THEN i
    ELSE FirstNL(text, i + 1)

\* f.readlines(): every line keeps its newline; a last line may lack one
RECURSIVE readlines(_)
readlines(text) ==
    IF text = <<>> THEN <<>>
    ELSE LET k == FirstNL(text, 1)
         IN  IF k = 0 THEN <<text>>
             ELSE <<SubSeq(text, 1, k)>> \o readlines(SubSeq(text, k + 1, Len(text)))

\* [json.loads(line) for line in lines]: the first bad line raises
RECURSIVE ParseLines(_)
ParseLines(lines) ==
    IF lines = <<>> THEN [status |-> "ok", records |-> <<>>]
    ELSE LET head == json_loads(lines[1])
             rest == ParseLines(Tail(lines))
         IN  IF ~head.ok THEN [status |-> "JSONDecodeError", records |-> <<>>]
             ELSE IF rest.status # "ok" THEN rest
             ELSE [status |-> "ok", records |-> <<head>> \o rest.records]

\* A loader that skips blank lines instead of failing on them.
RECURSIVE ParseNonBlankLines(_)
ParseNonBlankLines(lines) ==
    IF lines = <<>> THEN [status |-> "ok", records |-> <<>>]
    ELSE LET rest == ParseNonBlankLines(Tail(lines))
         IN  IF Strip(lines[1]) = <<>> THEN rest
             ELSE LET head == json_loads(lines[1])
                  IN  IF ~head.ok THEN [status |-> "JSONDecodeError", records |-> <<>>]
                      ELSE IF rest.status # "ok" THEN rest
                      ELSE [status |-> "ok", records |-> <<head>> \o rest.records]

load_jsonl_skipping_blanks(file) ==
    IF ~file.exists THEN [status |-> "FileNotFoundError", records |-> <<>>]
    ELSE ParseNonBlankLines(readlines(file.text))

\* def load_jsonl(path), for the file found at path
load_jsonl(file) ==
    IF ~file.exists THEN [status |-> "FileNotFoundError", records |-> <<>>]
    ELSE ParseLines(readlines(file.text))

\* Lines a dataset file may hold (without their newline)
LineSamples ==
    { <<"{", "Q:q1", ",", "T:t1", "}">>,
      <<"WS", "{", "T:t2", ",", "Q:q2", "}", "WS">>,
      <<"{", "Q:q1", "}">>,
      <<"7">>,
      <<>>,
      <<"{", "Q:q1", ",", "T:t1">> }

\* The lines written one after the other, each but the last followed by a
\* newline, and the last too when final_newline.
RECURSIVE JoinLines(_, _)
JoinLines(lines, final_newline) ==
    IF lines = <<>> THEN <<>>
    ELSE IF Len(lines) = 1
    THEN lines[1] \o (IF final_newline THEN <<"NL">> ELSE <<>>)
    ELSE lines[1] \o <<"NL">> \o JoinLines(Tail(lines), final_newline)

MissingFile == [exists |-> FALSE, text |-> <<>>]

DatasetFiles ==
    {MissingFile} \cup
    {[exists |-> TRUE, text |-> JoinLines(ls, nl)] :
        ls \in SeqsUpTo(LineSamples, MaxLines), nl \in BOOLEAN}

----------------------------------------------------------------------------
(* run.py: the command line *)

DefaultDatasetPath == "src/tests/evaluation_dataset.jsonl"
DefaultQuestion == "which tent is the most waterproof?"
DefaultImplementation == "aisdk"
Unbound == "<unbound>"

\* True
PyTrue == [kind |-> "bool", text |-> "True", context |-> None]

\* Command lines: an option is Absent when not given.  --dataset-path is given
\* bare ("<flag>") or followed by a path.
Argvs ==
    [question : {Absent, "q1"},
     implementation : {Absent, "bogus", ""} \cup KnownImplementations,
     deploy : BOOLEAN, evaluate : BOOLEAN, build_index : BOOLEAN,
     dataset_path : {Absent, "<flag>", "my.jsonl"},
     deployment_name : {Absent, "mydep"}]

NoArgv ==
    [question |-> Absent, implementation |-> Absent, deploy |-> FALSE,
     evaluate |-> FALSE, build_index |-> FALSE, dataset_path |-> Absent,
     deployment_name |-> Absent]

NoArgs ==
    [question |-> None, implementation |-> None, deploy |-> FALSE,
     evaluate |-> FALSE, build_index |-> FALSE, dataset_path |-> NoValue,
     deployment_name |-> None]

\* parser.add_argument(...) x 7 and parser.parse_args().  --dataset-path is a
\* store_true option: it takes no value, so a path after it is an argument
\* the parser does not recognise, and the parser exits with status 2.
parse_args(av) ==
    IF av.dataset_path \notin {Absent, "<flag>"}
    THEN [status |-> "SystemExit", namespace |-> NoArgs]
    ELSE [status |-> "ok",
          namespace |->
            [question |-> IF av.question = Absent THEN None ELSE av.question,
             implementation |-> IF av.implementation = Absent
                                THEN DefaultImplementation ELSE av.implementation,
             deploy |-> av.deploy,
             evaluate |-> av.evaluate,
             build_index |-> av.build_index,
             dataset_path |-> IF av.dataset_path = Absent
                              THEN PyStr(DefaultDatasetPath) ELSE PyTrue,
             deployment_name |-> IF av.deployment_name = Absent
                                 THEN None ELSE av.deployment_name]]

\* Names run.py binds before the dispatch: its imports, its functions and the
\* locals of the __main__ block.
ModuleNames ==
    {"annotations", "load_dotenv", "os", "asyncio", "platform", "json", "pathlib",
     "AIClient", "DefaultAzureCredential",
     "build_cogsearch_index", "copilot_qna", "load_jsonl", "run_evaluation",
     "deploy_flow", "argparse", "parser", "args"}

\* bool(x) of a str or None
Truthy(x) == x # None /\ x # ""

\* if args.implementation: if ... elif ... elif ... elif ...  (no else)
imported_backend(implementation) ==
    IF ~Truthy(implementation) THEN Unbound
    ELSE IF implementation = "promptflow" THEN "promptflow"
    ELSE IF implementation = "semantickernel" THEN "semantickernel"
    ELSE IF implementation = "langchain" THEN "langchain"
    ELSE IF implementation = "aisdk" THEN "aisdk"
    ELSE Unbound

\* A dispatch that looks at --deploy before --evaluate.
selected_operation_deploy_first(a) ==
    IF a.build_index THEN "build_index"
    ELSE IF a.deploy THEN "deploy"
    ELSE IF a.evaluate THEN "evaluate"
    ELSE "ask"

\* if args.build_index: ... elif args.evaluate: ... elif args.deploy: ... else: ...
selected_operation(a) ==
    IF a.build_index THEN "build_index"
    ELSE IF a.evaluate THEN "evaluate"
    ELSE IF a.deploy THEN "deploy"
    ELSE "ask"

Event(ev, arg) == [ev |-> ev, arg |-> arg]

RECURSIVE Count(_, _)
Count(tr, ev) ==
    IF tr = <<>> THEN 0
    ELSE (IF tr[1].ev = ev THEN 1 ELSE 0) + Count(Tail(tr), ev)

\* the events of one backend call: the call, and the question it submitted
BackendEvents(question, submitted) ==
    <<Event("chat_completion", <<question>>)>>
    \o [i \in 1..Len(submitted) |-> Event("qa", <<submitted[i]>>)]

----------------------------------------------------------------------------
(* run.py: the operations *)

IndexOutcomes == [client_ok : BOOLEAN, build_ok : BOOLEAN, register_ok : BOOLEAN]

\* def build_cogsearch_index(index_name, path_to_data)
build_cogsearch_index(index_name, path_to_data, env, svc) ==
    LET fail(status, e, tr) ==
            [status |-> status, environ |-> e, trace |-> tr, stdout |-> <<>>]
        built == Event("build_mlindex", <<index_name, path_to_data>>)
        registered == Event("mlindexes.create_or_update", <<index_name>>)
    IN
    IF env["AZURE_AI_SEARCH_ENDPOINT"] = Absent THEN fail("KeyError", env, <<>>)
    ELSE LET env1 == [env EXCEPT !["AZURE_COGNITIVE_SEARCH_TARGET"] =
                                       env["AZURE_AI_SEARCH_ENDPOINT"]]
         IN
         IF env1["AZURE_AI_SEARCH_KEY"] = Absent THEN fail("KeyError", env1, <<>>)
         ELSE LET env2 == [env1 EXCEPT !["AZURE_COGNITIVE_SEARCH_KEY"] =
                                             env1["AZURE_AI_SEARCH_KEY"]]
              IN
              IF ~svc.client_ok THEN fail("ServiceError", env2, <<>>)
              ELSE IF env2["AZURE_OPENAI_EMBEDDING_DEPLOYMENT"] = Absent
                      \/ env2["AZURE_OPENAI_EMBEDDING_MODEL"] = Absent
              THEN fail("KeyError", env2, <<>>)
              ELSE IF ~svc.build_ok THEN fail("ServiceError", env2, <<built>>)
              ELSE IF ~svc.register_ok
              THEN fail("ServiceError", env2, <<built, registered>>)
              ELSE [status |-> "ok", environ |-> env2,
                    trace |-> <<built, registered>>,
                    stdout |-> <<PyStr("Created index"), PyStr("Local Path"),
                                 PyStr("Cloud Path")>>]

DeployOutcomes == [client_ok : BOOLEAN, publish_ok : BOOLEAN]
ProjectName == "proj"

\* def deploy_flow(deployment_name): Deployment and LocalModel are looked up in
\* the module namespace when the call is evaluated.
deploy_flow(deployment_name, names, svc) ==
    IF ~svc.client_ok THEN [status |-> "ServiceError", trace |-> <<>>]
    ELSE IF "Deployment" \notin names \/ "LocalModel" \notin names
    THEN [status |-> "NameError", trace |-> <<>>]
    ELSE [status |-> IF svc.publish_ok THEN "ok" ELSE "ServiceError",
          trace |-> <<Event("deployments.create_or_update", deployment_name)>>]

\* args.deployment_name if args.deployment_name else f"{client.project_name}-copilot"
deployment_name_of(a) ==
    IF Truthy(a.deployment_name) THEN <<a.deployment_name>>
    ELSE <<ProjectName, "-copilot">>

\* The files the dataset path may lead to
CliFiles ==
    { MissingFile,
      [exists |-> TRUE,
       text |-> <<"{", "Q:q1", ",", "T:t1", "}", "NL",
                  "{", "Q:q2", ",", "T:t2", "}", "NL">>],
      [exists |-> TRUE,
       text |-> <<"{", "Q:q1", ",", "T:t1", "}", "NL", "NL">>] }

\* run_evaluation up to the call of evaluate(): the path, the dataset, the client
run_evaluation_load(dataset_path, file, client_ok) ==
    \* pathlib.Path.cwd() / dataset_path
    IF dataset_path.kind # "str" THEN [status |-> "TypeError", records |-> <<>>]
    ELSE LET loaded == load_jsonl(file)
         IN  IF loaded.status # "ok" THEN loaded
             ELSE IF ~client_ok THEN [status |-> "ServiceError", records |-> <<>>]
             ELSE loaded

----------------------------------------------------------------------------
(* Initial states *)

\* The openai module takes its settings from the environment when it is
\* imported (run.py loads .env first for that reason); a variable that is not
\* set leaves the library's default.
OpenAIFromEnv(env) ==
    [f \in OpenAIFields |->
        LET v == CASE f = "api_type"    -> env["OPENAI_API_TYPE"]
                   [] f = "api_key"     -> env["OPENAI_API_KEY"]
                   [] f = "api_version" -> env["OPENAI_API_VERSION"]
                   [] f = "api_base"    -> env["OPENAI_API_BASE"]
        IN  IF v = Absent THEN "module-default" ELSE v]

NoCall ==
    [op |-> "none", messages |-> <<>>, question |-> None, fn |-> None,
     file |-> MissingFile, missing |-> {}, answer |-> None, answered |-> FALSE,
     status |-> "none", value |-> NoValue, qna |-> NoQna, submitted |-> <<>>,
     records |-> <<>>]

InitProcess ==
    /\ args = NoArgs
    /\ argv = NoArgv
    /\ module_names = ModuleNames
    /\ backend = Unbound
    /\ environ \in Environments
    /\ openai \in {OpenAIDefaults, OpenAIFromEnv(environ)}
    /\ environ0 = environ
    /\ openai0 = openai
    /\ trace = <<>>
    /\ stdout = <<>>
    /\ exc = "none"
    /\ started = {}
    /\ dataset = <<>>
    /\ row = 0
    /\ result = NoValue
    /\ last = NoCall

\* python src/run.py ...: the module body has run up to the argument parser
Init == pc = "parse" /\ InitProcess

\* a process that has imported the functions
InitLib == pc = "lib" /\ InitProcess

----------------------------------------------------------------------------
(* One run of run.py *)

libvars == <<last, environ0, openai0>>

\* an uncaught exception: the traceback is printed and the process exits non-zero
Raise(e) == pc' = "error" /\ exc' = e

\* args = parser.parse_args()
ParseArgs ==
    /\ pc = "parse"
    /\ \E av \in Argvs :
          LET parsed == parse_args(av)
          IN  /\ argv' = av
              /\ IF parsed.status = "ok"
                 THEN args' = parsed.namespace /\ pc' = "import" /\ exc' = exc
                 ELSE args' = args /\ Raise(parsed.status)
    /\ UNCHANGED <<module_names, backend, environ, openai, trace, stdout, started,
                   dataset, row, result, libvars>>

\* from copilot_<implementation>.chat import chat_completion
ImportBackend ==
    /\ pc = "import"
    /\ backend' = imported_backend(args.implementation)
    /\ module_names' = IF backend' = Unbound THEN module_names
                       ELSE module_names \cup {"chat_completion"}
    /\ pc' = "dispatch"
    /\ UNCHANGED <<args, argv, environ, openai, trace, stdout, exc, started,
                   dataset, row, result, libvars>>

\* the if / elif / elif / else over the mode flags
Dispatch ==
    /\ pc = "dispatch"
    /\ pc' = selected_operation(args)
    /\ UNCHANGED <<args, argv, module_names, backend, environ, openai, trace,
                   stdout, exc, started, dataset, row, result, libvars>>

\* build_cogsearch_index("contoso_product_index", "data/3-product_info")
BuildIndex ==
    /\ pc = "build_index"
    /\ started' = started \cup {"build_index"}
    /\ \E svc \in IndexOutcomes :
          LET r == build_cogsearch_index("contoso_product_index",
                                         "data/3-product_info", environ, svc)
          IN  /\ environ' = r.environ
              /\ trace' = trace \o r.trace
              /\ stdout' = stdout \o r.stdout
              /\ IF r.status = "ok" THEN pc' = "done" /\ exc' = exc
                 ELSE Raise(r.status)
    /\ UNCHANGED <<args, argv, module_names, backend, openai, dataset, row,
                   result, libvars>>

\* results = run_evaluation(chat_completion, ...), up to the call of evaluate()
EvaluateLoad ==
    /\ pc = "evaluate"
    /\ started' = started \cup {"evaluate"}
    /\ IF "chat_completion" \notin module_names
       THEN Raise("NameError") /\ UNCHANGED <<dataset, row, trace>>
       ELSE \E file \in CliFiles, client_ok \in BOOLEAN :
               LET l == run_evaluation_load(args.dataset_path, file, client_ok)
               IN  IF l.status # "ok"
                   THEN Raise(l.status) /\ UNCHANGED <<dataset, row, trace>>
                   ELSE /\ dataset' = l.records
                        /\ row' = 1
                        /\ trace' = Append(trace,
                              Event("evaluate",
                                    <<"test-", args.implementation, "-copilot">>))
                        /\ pc' = "evaluate_rows"
                        /\ exc' = exc
    /\ UNCHANGED <<args, argv, module_names, backend, environ, openai, stdout,
                   result, libvars>>

\* evaluate() scores the next row: qna_fn(question)
EvaluateRow ==
    /\ pc = "evaluate_rows"
    /\ row <= Len(dataset)
    /\ IF dataset[row].question = Absent
       THEN Raise("KeyError") /\ UNCHANGED <<environ, openai, trace, row>>
       ELSE \E svc \in PipelineOutcomes, shape \in Shapes :
               LET r == copilot_qna(dataset[row].question, backend, environ, openai,
                                    svc, shape)
               IN  /\ environ' = r.environ
                   /\ openai' = r.openai
                   /\ trace' = trace \o BackendEvents(dataset[row].question, r.submitted)
                   /\ IF r.status = "ok"
                      THEN row' = row + 1 /\ pc' = pc /\ exc' = exc
                      ELSE row' = row /\ Raise(r.status)
    /\ UNCHANGED <<args, argv, module_names, backend, stdout, started, dataset,
                   result, libvars>>

\* evaluate() returns and print(results)
EvaluateReport ==
    /\ pc = "evaluate_rows"
    /\ row > Len(dataset)
    /\ \E scored \in BOOLEAN :
          IF scored
          THEN /\ result' = PyEvalResult("metrics")
               /\ stdout' = Append(stdout, result')
               /\ pc' = "done"
               /\ exc' = exc
          ELSE Raise("ServiceError") /\ UNCHANGED <<result, stdout>>
    /\ UNCHANGED <<args, argv, module_names, backend, environ, openai, trace,
                   started, dataset, row, libvars>>

\* the --deploy branch: the client, the deployment name, deploy_flow(name)
Deploy ==
    /\ pc = "deploy"
    /\ started' = started \cup {"deploy"}
    /\ \E client_ok \in BOOLEAN, svc \in DeployOutcomes :
          IF ~client_ok
          THEN Raise("ServiceError") /\ trace' = trace
          ELSE LET d == deploy_flow(deployment_name_of(args), module_names, svc)
               IN  /\ trace' = trace \o d.trace
                   /\ IF d.status = "ok" THEN pc' = "done" /\ exc' = exc
                      ELSE Raise(d.status)
    /\ UNCHANGED <<args, argv, module_names, backend, environ, openai, stdout,
                   dataset, row, result, libvars>>

\* the question asked: --question, or the sample question
asked_question(a) == IF Truthy(a.question) THEN a.question ELSE DefaultQuestion

\* An ask branch that calls again after a failed call.
AskCallRetrying ==
    /\ pc = "ask"
    /\ started' = started \cup {"ask"}
    /\ IF "chat_completion" \notin module_names
       THEN Raise("NameError") /\ UNCHANGED <<environ, openai, trace, result>>
       ELSE \E svc \in PipelineOutcomes, shape \in Shapes :
               LET q == asked_question(args)
                   r == call_backend(backend, <<[role |-> "user", content |-> q]>>,
                                     environ, openai, svc, shape)
               IN  /\ environ' = r.environ
                   /\ openai' = r.openai
                   /\ trace' = trace \o BackendEvents(q, r.submitted)
                   /\ IF r.status = "ok"
                      THEN result' = r.value /\ pc' = "ask_print" /\ exc' = exc
                      ELSE IF Count(trace, "chat_completion") = 0
                      THEN result' = result /\ pc' = pc /\ exc' = exc
                      ELSE result' = result /\ Raise(r.status)
    /\ UNCHANGED <<args, argv, module_names, backend, stdout, dataset, row, libvars>>

\* result = asyncio.run(chat_completion([{"role": "user", "content": question}]))
AskCall ==
    /\ pc = "ask"
    /\ started' = started \cup {"ask"}
    /\ IF "chat_completion" \notin module_names
       THEN Raise("NameError") /\ UNCHANGED <<environ, openai, trace, result>>
       ELSE \E svc \in PipelineOutcomes, shape \in Shapes :
               LET q == asked_question(args)
                   r == call_backend(backend, <<[role |-> "user", content |-> q]>>,
                                     environ, openai, svc, shape)
               IN  /\ environ' = r.environ
                   /\ openai' = r.openai
                   /\ trace' = trace \o BackendEvents(q, r.submitted)
                   /\ IF r.status = "ok"
                      THEN result' = r.value /\ pc' = "ask_print" /\ exc' = exc
                      ELSE result' = result /\ Raise(r.status)
    /\ UNCHANGED <<args, argv, module_names, backend, stdout, dataset, row, libvars>>

\* print(result)
AskPrint ==
    /\ pc = "ask_print"
    /\ stdout' = Append(stdout, result)
    /\ pc' = "done"
    /\ UNCHANGED <<args, argv, module_names, backend, environ, openai, trace, exc,
                   started, dataset, row, result, libvars>>

Next ==
    \/ ParseArgs
    \/ ImportBackend
    \/ Dispatch
    \/ BuildIndex
    \/ EvaluateLoad
    \/ EvaluateRow
    \/ EvaluateReport
    \/ Deploy
    \/ AskCall
    \/ AskPrint

Spec == Init /\ [][Next]_vars

----------------------------------------------------------------------------
(* A process that calls the functions directly *)

clivars == <<args, argv, module_names, backend, trace, stdout, exc, started,
             dataset, row, result, environ0, openai0>>

MissingIn(env) == {v \in ChatEnvVars : env[v] = Absent}

\* await chat_completion(messages)
LibChatCompletion ==
    /\ pc = "lib"
    /\ \E messages \in MessageSeqs, svc \in PipelineOutcomes :
          LET r == chat_completion(messages, environ, openai, svc)
          IN  /\ environ' = r.environ
              /\ openai' = r.openai
              /\ last' = [NoCall EXCEPT !.op = "chat_completion",
                                        !.messages = messages,
                                        !.missing = MissingIn(environ),
                                        !.answer = svc.answer,
                                        !.answered = (r.status = "ok"),
                                        !.status = r.status,
                                        !.value = r.value,
                                        !.submitted = r.submitted]
    /\ pc' = "returned"
    /\ UNCHANGED clivars

\* copilot_qna(question, chat_completion_fn)
LibCopilotQna ==
    /\ pc = "lib"
    /\ \E q \in Questions, fn \in KnownImplementations,
          svc \in PipelineOutcomes, shape \in Shapes :
          LET r == copilot_qna(q, fn, environ, openai, svc, shape)
              b == call_backend(fn, <<[role |-> "user", content |-> q]>>,
                                environ, openai, svc, shape)
          IN  /\ environ' = r.environ
              /\ openai' = r.openai
              /\ last' = [NoCall EXCEPT !.op = "copilot_qna",
                                        !.question = q,
                                        !.fn = fn,
                                        !.missing = MissingIn(environ),
                                        !.answer = svc.answer,
                                        !.answered = (b.status = "ok"),
                                        !.status = r.status,
                                        !.value = b.value,
                                        !.qna = r.qna,
                                        !.submitted = r.submitted]
    /\ pc' = "returned"
    /\ UNCHANGED clivars

\* load_jsonl(path)
LibLoadJsonl ==
    /\ pc = "lib"
    /\ \E file \in DatasetFiles :
          LET r == load_jsonl(file)
          IN  last' = [NoCall EXCEPT !.op = "load_jsonl",
                                     !.file = file,
                                     !.status = r.status,
                                     !.records = r.records]
    /\ pc' = "returned"
    /\ UNCHANGED <<environ, openai>>
    /\ UNCHANGED clivars

\* the caller is done with what the call returned or raised, and goes on
LibResume ==
    /\ pc = "returned"
    /\ pc' = "lib"
    /\ last' = NoCall
    /\ UNCHANGED <<environ, openai>>
    /\ UNCHANGED clivars

NextLib ==
    \/ LibChatCompletion
    \/ LibCopilotQna
    \/ LibLoadJsonl
    \/ LibResume

SpecLib == InitLib /\ [][NextLib]_vars

----------------------------------------------------------------------------
(* Properties *)

Terminal == pc \in {"done", "error"}

\* C1: for every non-empty conversation, chat_completion submits exactly the
\* content of the last message to the pipeline (nothing else, and at most
\* once), and what it returns is the pipeline's answer text alone: a str equal
\* to the 'result' field, without the source documents.
C1_LastMessageIsTheQuestion ==
    (last.op = "chat_completion" /\ last.messages # <<>>) =>
        LET asked == last.messages[Len(last.messages)].content
        IN  /\ last.submitted \in {<<>>, <<asked>>}
            /\ last.status = "ok" =>
                  /\ last.submitted = <<asked>>
                  /\ last.value = [kind |-> "str", text |-> last.answer,
                                   context |-> None]

\* C1 happens: a two-message conversation whose messages differ was answered.
C1_Witness ==
    /\ last.op = "chat_completion"
    /\ last.status = "ok"
    /\ Len(last.messages) = 2
    /\ last.messages[1].content # last.messages[2].content

\* C3, for the langchain chat_completion the claim names: whenever the backend
\* function answers, copilot_qna returns an object whose question is the input,
\* whose answer is the backend's non-empty answer text and whose context is
\* present; it does not fail on the shape of what the backend returned.
C3_QnaAcceptsLangchainAnswer ==
    (last.op = "copilot_qna" /\ last.fn = "langchain" /\ last.answered) =>
        /\ last.status = "ok"
        /\ last.qna.question = last.question
        /\ last.qna.answer = last.answer
        /\ last.qna.answer \in Answers
        /\ last.qna.context # None

\* C4: when a variable chat_completion requires is absent from the
\* environment, the call raises, returns no answer and never reaches
\* qa(question).
C4_MissingConfigurationFailsBeforePipeline ==
    (last.op = "chat_completion" /\ last.missing # {}) =>
        /\ last.status \notin {"ok", "none"}
        /\ last.value = NoValue
        /\ last.submitted = <<>>

\* C4 happens: the variable read last of all is the one that is absent, and
\* the call on a non-empty conversation raised KeyError.
C4_Witness ==
    /\ last.op = "chat_completion"
    /\ last.messages # <<>>
    /\ last.missing = {"AZURE_AI_SEARCH_KEY"}
    /\ last.status = "KeyError"

\* C6 as stated: after any sequence of calls the process environment and the
\* openai settings are what they were before the first call.
C6_NoProcessStateWritten ==
    environ = environ0 /\ openai = openai0

\* C6 amended: a call never changes a configuration variable it reads; the
\* only process-wide state it writes is openai.api_type/api_key/api_version/
\* api_base and AZURE_COGNITIVE_SEARCH_TARGET/KEY, each of which is, after any
\* sequence of calls, either what it was before the first call or a copy of
\* its configuration variable; after a call that returned, all six are copies.
C6_WritesOnlyCopiedCredentials ==
    LET copied ==
            /\ \A i \in 1..Len(CredentialSteps) :
                  LET st == CredentialSteps[i]
                  IN  IF st.into = "openai"
                      THEN openai[st.target] = environ0[st.source]
                      ELSE environ[st.target] = environ0[st.source]
    IN  /\ \A v \in ConfigEnvVars : environ[v] = environ0[v]
        /\ environ["AZURE_COGNITIVE_SEARCH_TARGET"] \in
              {environ0["AZURE_COGNITIVE_SEARCH_TARGET"],
               environ0["AZURE_AI_SEARCH_ENDPOINT"]}
        /\ environ["AZURE_COGNITIVE_SEARCH_KEY"] \in
              {environ0["AZURE_COGNITIVE_SEARCH_KEY"],
               environ0["AZURE_AI_SEARCH_KEY"]}
        /\ openai.api_type \in {openai0.api_type, environ0["OPENAI_API_TYPE"]}
        /\ openai.api_key \in {openai0.api_key, environ0["OPENAI_API_KEY"]}
        /\ openai.api_version \in {openai0.api_version, environ0["OPENAI_API_VERSION"]}
        /\ openai.api_base \in {openai0.api_base, environ0["OPENAI_API_BASE"]}
        /\ (last.op = "chat_completion" /\ last.status = "ok") => copied

\* C6 happens: a call returned in a process whose state an earlier or this
\* call has changed.
C6_Witness ==
    /\ last.op = "chat_completion"
    /\ last.status = "ok"
    /\ environ # environ0
    /\ openai # openai0

RECURSIVE CountNL(_)
CountNL(text) ==
    IF text = <<>> THEN 0
    ELSE (IF text[1] = "NL" THEN 1 ELSE 0) + CountNL(Tail(text))

\* the number of lines of a file: its newlines, and one more for a last line
\* that has none
NumLines(text) ==
    CountNL(text) + (IF text # <<>> /\ text[Len(text)] # "NL" THEN 1 ELSE 0)

\* member m is in the line, and no other member of its group is
HoldsOnly(line, m, group) ==
    /\ \E j \in 1..Len(line) : line[j] = m
    /\ \A j \in 1..Len(line) : line[j] \in group => line[j] = m

C2_UnknownImplementationFails ==
    pc = "done" => args.implementation \in KnownImplementations

\* C5: in an ask run with a known implementation the backend is called exactly
\* once, with the question; after a call that returned the result is printed
\* once, nothing else is, and the process ends; after a call that raised
\* nothing is printed, the exception ends the process and no call follows.
C5_AskCallsOncePrintsOnce ==
    (started = {"ask"} /\ backend # Unbound) =>
        /\ Count(trace, "chat_completion") = 1
        /\ trace[1] = Event("chat_completion", <<asked_question(args)>>)
        /\ pc \in {"ask_print", "done", "error"}
        /\ pc = "ask_print" => (stdout = <<>> /\ exc = "none")
        /\ pc = "done" => (stdout = <<result>> /\ result # NoValue /\ exc = "none")
        /\ pc = "error" => (stdout = <<>> /\ exc \notin {"none", "NameError"})
        /\ Terminal => ~ENABLED Next

\* C5 happens: the langchain backend answered the question given on the
\* command line and the answer was printed.
C5_Witness ==
    /\ started = {"ask"}
    /\ backend = "langchain"
    /\ pc = "done"
    /\ args.question = "q1"
    /\ stdout = <<PyStr("a1")>>

\* C7: a --deploy run (without --build-index and --evaluate) that no hosted
\* service fails issues deployments.create_or_update exactly once, for the
\* deployment named by --deployment-name, or '<project_name>-copilot' without
\* one.
C7_DeployReachesPublish ==
    (started = {"deploy"} /\ Terminal /\ exc # "ServiceError") =>
        /\ Count(trace, "deployments.create_or_update") = 1
        /\ \E i \in 1..Len(trace) :
              trace[i] = Event("deployments.create_or_update",
                               IF argv.deployment_name = Absent
                               THEN <<ProjectName, "-copilot">>
                               ELSE <<argv.deployment_name>>)

\* C8: in an --evaluate run --dataset-path is a string-valued option: the
\* path is the bundled default without the flag and the given path with it,
\* and neither the parser nor the path arithmetic of run_evaluation rejects it.
C8_DatasetPathIsAStringOption ==
    (pc # "parse" /\ argv.evaluate /\ ~argv.build_index
        /\ argv.dataset_path # "<flag>") =>
        /\ exc \notin {"SystemExit", "TypeError"}
        /\ args.dataset_path =
              PyStr(IF argv.dataset_path = Absent THEN DefaultDatasetPath
                    ELSE argv.dataset_path)

OperationEvents ==
    [build_index |-> {"build_mlindex", "mlindexes.create_or_update"},
     evaluate |-> {"evaluate", "chat_completion", "qa"},
     deploy |-> {"deployments.create_or_update"},
     ask |-> {"chat_completion", "qa"}]

\* C10: a run enters at most one of the four operations, the first of
\* --build-index, --evaluate, --deploy that is set and asking when none is;
\* every call it issues belongs to that operation, so with --build-index no
\* question is asked, nothing is evaluated and nothing is deployed.
C10_AtMostOneOperationByPriority ==
    /\ Cardinality(started) <= 1
    /\ args.build_index => started \subseteq {"build_index"}
    /\ (~args.build_index /\ args.evaluate) => started \subseteq {"evaluate"}
    /\ (~args.build_index /\ ~args.evaluate /\ args.deploy)
          => started \subseteq {"deploy"}
    /\ (~args.build_index /\ ~args.evaluate /\ ~args.deploy)
          => started \subseteq {"ask"}
    /\ \A i \in 1..Len(trace) :
          \E op \in started : trace[i].ev \in OperationEvents[op]

\* C10 happens: all three flags were given and the index was built.
C10_Witness ==
    /\ args.build_index /\ args.evaluate /\ args.deploy
    /\ started = {"build_index"}
    /\ pc = "done"
    /\ Len(trace) = 2

=============================================================================
